---- MODULE Spec2Model ----
(***************************************************************************)
(* Hive-Social: the action-broadcasting and connection layer of the React  *)
(* client.  Each component is a state machine over its useState cells; an  *)
(* action is one event handler, promise continuation, agent callback or    *)
(* timer callback, run to its next suspension point.  State updates made   *)
(* in one such run are committed together (React batches them), and the    *)
(* effects whose dependencies changed run as part of the same action.      *)
(*                                                                         *)
(* The components are checked separately: SpecApp (startup probing and     *)
(* session), SpecPostViewVote and SpecPostViewComment (the two controls of *)
(* PostView), SpecCreatePost and SpecCreatePostTest (the form and its      *)
(* debug panel), SpecSocial (SocialUtils with the Post card and            *)
(* FollowButton as callers), SpecPermlink, SpecHome (the feed's category   *)
(* fallback) and SpecSignedOut (every signing handler with no user).       *)
(***************************************************************************)
EXTENDS Integers, Sequences, FiniteSets, Bags, TLC

\* JavaScript null / undefined
Null == "null"
Undefined == "undefined"

\* PostView's post before any get_content result (null)
NoPost == [author |-> Null]

\* Account names that can be typed into the login form ("" is the empty input)
Users == {"alice", "bob"}

VARIABLES
  \* ---- App (HiveContext) ----
  client,              \* useState(null): Null or "client"
  user,                \* useState(localStorage.getItem('hivesocial_user') || null)
  isKeychain,          \* useState(false), set by initializeApp
  networkError,        \* useState(null)
  isLoading,           \* useState(true)
  connectionAttempts,  \* useState(0)
  clientReady,         \* useState(false)
  probes,              \* getDynamicGlobalProperties calls in flight, each the
                       \* connectionAttempts value its initializeApp closed over
  storage,             \* localStorage
  loginError,          \* Login: useState('') error
  loginRequests,       \* requestSignBuffer calls in flight, each the username
                       \* its callback closed over
  keychainInstalled,   \* window.hive_keychain is present
  agentSilent,         \* the signing agent never invokes its callbacks
  \* ---- PostView ----
  pvPermlink,          \* useParams().permlink (the author is fixed)
  pvPost,              \* useState(null)
  pvComments,          \* useState([]), its length
  pvLoading,           \* useState(true)
  pvError,             \* useState('')
  pvCommentBody,       \* useState('')
  pvSubmittingComment, \* useState(false)
  pvCommentError,      \* useState('')
  pvVoted,             \* useState(false)
  pvVoteWeight,        \* useState(10000)
  pvFetches,           \* fetchPost runs in flight, each the permlink it closed over
  pvAgent,             \* requestVote / requestComment calls awaiting their callback
  \* ---- CreatePost ----
  cpMounted,           \* the component is mounted (it unmounts when it navigates)
  cpTitle,             \* useState('')
  cpBody,              \* useState('')
  cpTags,              \* useState('')
  cpIsSubmitting,      \* useState(false)
  cpError,             \* useState('')
  cpSuccessMessage,    \* useState('')
  cpPostingMethod,     \* useState(isKeychain ? 'keychain' : 'direct')
  cpTimeoutId,         \* useState(null), 0 for null
  cpTimers,            \* ids of the armed 30 s deadline timers
  cpClearTimers,       \* a 2 s timer that clears the form and navigates is armed
  cpRequests,          \* requestPost / sendOperations calls not yet settled
  \* ---- SocialUtils and the feed's Post card ----
  suRequests,          \* requestBroadcast calls awaiting the agent's response
  suSleeps,            \* likePost calls inside their 500 ms simulated wait
  suResult,            \* what the likePost promise that resolved last resolved to
  postIsVoting,        \* useState(false)
  postVoteError,       \* useState('')
  postHasVoted,        \* useState(post.active_votes?.some(...))
  suFollows,           \* followUser / unfollowUser calls not yet resolved
  fbIsFollowing,       \* FollowButton: useState(false)
  fbLoading,           \* useState(true)
  fbProcessing,        \* useState(false)
  fbError,             \* useState('')
  \* ---- permlinks ----
  now,                 \* the clock reading Date.now() / new Date() returns
  minted,              \* the permlinks generated so far, oldest first
  \* ---- observers ----
  ev,                  \* the handler / continuation that ran last
  failedRun,           \* failed health probes since the last success or user retry
  retries,             \* probes started by a failed probe since then
  probedOk,            \* a probe has succeeded since the start or the last user retry
  cpFired,             \* ids of the fired deadline timers whose sendOperations is pending
  \* ---- Home ----
  hmCategory,          \* useState('trending')
  hmPosts,             \* useState([])
  hmLoading,           \* useState(true)
  hmError,             \* useState('')
  hmUsingSampleData,   \* useState(false)
  hmFetches,           \* getDiscussions calls in flight, each the category its
                       \* fetchPosts closed over
  hmChain              \* fetches started since the last mount or click, the
                       \* one that mount or click started included

loginVars == <<loginError, loginRequests>>
appVars == <<client, user, isKeychain, networkError, isLoading, connectionAttempts,
             clientReady, probes, storage, loginVars>>
envVars == <<keychainInstalled, agentSilent>>
pvVars == <<pvPermlink, pvPost, pvComments, pvLoading, pvError, pvCommentBody,
            pvSubmittingComment, pvCommentError, pvVoted, pvVoteWeight, pvFetches,
            pvAgent>>
cpVars == <<cpMounted, cpTitle, cpBody, cpTags, cpIsSubmitting, cpError,
            cpSuccessMessage, cpPostingMethod, cpTimeoutId, cpTimers,
            cpClearTimers, cpRequests, cpFired>>
voteVars == <<suRequests, suSleeps, suResult, postIsVoting, postVoteError, postHasVoted>>
fbVars == <<suFollows, fbIsFollowing, fbLoading, fbProcessing, fbError>>
suVars == <<voteVars, fbVars>>
idVars == <<now, minted>>
hmVars == <<hmCategory, hmPosts, hmLoading, hmError, hmUsingSampleData, hmFetches,
            hmChain>>
viewVars == <<pvVars, cpVars, suVars, idVars, hmVars>>
appObs == <<failedRun, retries, probedOk>>
obsVars == <<ev, appObs>>

vars == <<appVars, envVars, viewVars, obsVars>>

----------------------------------------------------------------------------
(* App: startup probing                                                    *)

\* "If we've tried less than 3 times, retry"
MaxConnectionAttempts == 3

ConnectError == "Could not connect to Hive blockchain after multiple attempts"

\* The useEffect dependency array [connectionAttempts, clientReady] changed
EffectDepsChanged(a, r) == <<connectionAttempts, clientReady>> # <<a, r>>

\* The effect's last statement arms the 2-second retry timer if
\* connectionAttempts > 0 && connectionAttempts < 3 && !clientReady, read from
\* the render the effect belongs to.  Every failure branch commits
\* setClientReady(true) together with its counter update, and the Retry
\* Connection button commits connectionAttempts = 0, so no action below
\* produces a render in which this holds and no timer action exists.
RetryTimerArmed(a, r) == a > 0 /\ a < MaxConnectionAttempts /\ ~r

ShouldRetryEarly(att) == att < MaxConnectionAttempts - 1

\* The first branch of the failure handler: attempts < 3 schedules another try
ShouldRetry(att) == att < MaxConnectionAttempts

\* App's render: the top-level loading screen, then inside the provider
\* isLoading ? fallback : networkError ? error page : Router
TopLoadingScreen == isLoading /\ connectionAttempts < 2
ErrorPageRendered == ~TopLoadingScreen /\ ~isLoading /\ networkError # Null
RouterRendered == ~TopLoadingScreen /\ ~isLoading /\ networkError = Null

\* A probe resolves: setClient, setClientReady(true), setNetworkError(null),
\* finally setIsLoading(false); then the effect re-runs if its deps changed and
\* calls initializeApp again (setIsLoading(true), a new probe).
App_ProbeSucceeds ==
  \E att \in probes :
    LET rerun == EffectDepsChanged(connectionAttempts, TRUE) IN
    /\ client' = "client"
    /\ clientReady' = TRUE
    /\ networkError' = Null
    /\ connectionAttempts' = connectionAttempts
    /\ probes' = (probes \ {att}) \cup (IF rerun THEN {connectionAttempts} ELSE {})
    /\ isLoading' = rerun
    /\ isKeychain' = IF rerun THEN keychainInstalled ELSE isKeychain
    /\ failedRun' = 0
    /\ retries' = 0
    /\ probedOk' = TRUE
    /\ ev' = "probeSucceeded"
    /\ UNCHANGED <<user, storage, loginVars, envVars, viewVars>>

\* A probe rejects: below 3 attempts the counter is incremented, otherwise the
\* degraded-mode message is set; in both cases the client is provided.
App_ProbeFails ==
  \E att \in probes :
    LET newAttempts == IF ShouldRetry(att) THEN connectionAttempts + 1
                       ELSE connectionAttempts
        rerun == EffectDepsChanged(newAttempts, TRUE) IN
    /\ connectionAttempts' = newAttempts
    /\ networkError' = IF ShouldRetry(att) THEN networkError ELSE ConnectError
    /\ client' = "client"
    /\ clientReady' = TRUE
    /\ probes' = (probes \ {att}) \cup (IF rerun THEN {newAttempts} ELSE {})
    /\ isLoading' = rerun
    /\ isKeychain' = IF rerun THEN keychainInstalled ELSE isKeychain
    /\ failedRun' = failedRun + 1
    /\ retries' = IF rerun THEN retries + 1 ELSE retries
    /\ probedOk' = probedOk
    /\ ev' = IF ShouldRetry(att) THEN "probeFailed" ELSE "degraded"
    /\ UNCHANGED <<user, storage, loginVars, envVars, viewVars>>

\* The "Retry Connection" button of the error page
App_RetryConnection ==
  /\ ErrorPageRendered
  /\ LET rerun == EffectDepsChanged(0, FALSE) IN
     /\ connectionAttempts' = 0
     /\ clientReady' = FALSE
     /\ probes' = probes \cup (IF rerun THEN {0} ELSE {})
     /\ isLoading' = rerun
     /\ isKeychain' = IF rerun THEN keychainInstalled ELSE isKeychain
  /\ failedRun' = 0
  /\ retries' = 0
  /\ probedOk' = FALSE
  /\ ev' = "retryConnection"
  /\ UNCHANGED <<client, networkError, user, storage, loginVars, envVars, viewVars>>

----------------------------------------------------------------------------
(* Session: Login and Navbar, rendered inside the Router                   *)

\* localStorage.setItem('hivesocial_user', username)
setItem(st, username) == [st EXCEPT !.hivesocial_user = username]

removeItemKept(st) == st

\* localStorage.removeItem('hivesocial_user')
removeItem(st) == [st EXCEPT !.hivesocial_user = Null]

\* Login's error cell is empty and no sign-buffer request is out
LoginIdle == loginError = "" /\ loginRequests = {}

Login_handleDirectLogin ==
  /\ RouterRendered
  /\ \E username \in Users \cup {""} :
       IF username = ""
       THEN /\ loginError' = "Please enter a username"
            /\ UNCHANGED <<user, storage>>
       ELSE /\ storage' = setItem(storage, username)
            /\ user' = username
            /\ UNCHANGED loginError
  /\ ev' = "directLogin"
  /\ UNCHANGED <<client, isKeychain, networkError, isLoading, connectionAttempts,
                 clientReady, probes, loginRequests, envVars, appObs, viewVars>>

\* The first two checks of handleKeychainLogin: the error it sets, or ""
KeychainLoginRefusal(username) ==
  IF username = "" THEN "Please enter a username"
  ELSE IF ~keychainInstalled THEN "Hive Keychain extension is not installed"
  ELSE ""

\* Login.handleKeychainLogin up to the requestSignBuffer call; a throw of that
\* call is caught and shown
Login_handleKeychainLogin ==
  /\ RouterRendered
  /\ \E username \in Users \cup {""}, throws \in BOOLEAN :
       IF KeychainLoginRefusal(username) # ""
       THEN /\ ~throws
            /\ loginError' = KeychainLoginRefusal(username)
            /\ ev' = "keychainRefused"
            /\ UNCHANGED loginRequests
       ELSE IF throws
       THEN /\ loginError' = "Failed to connect to Hive Keychain"
            /\ ev' = "keychainRefused"
            /\ UNCHANGED loginRequests
       ELSE /\ loginRequests' = loginRequests \cup {username}
            /\ ev' = "keychainRequested"
            /\ UNCHANGED loginError
  /\ UNCHANGED <<client, user, isKeychain, networkError, isLoading, connectionAttempts,
                 clientReady, probes, storage, envVars, appObs, viewVars>>

LoginFailedErrorSilent(message) == ""

\* 'Login failed: ' + response.message
LoginFailedError(message) == "Login failed: " \o message

\* The callback of a requestSignBuffer call
Login_KeychainCallback ==
  /\ RouterRendered
  /\ \E username \in loginRequests, success \in BOOLEAN :
       /\ loginRequests' = loginRequests \ {username}
       /\ IF success
          THEN /\ storage' = setItem(storage, username)
               /\ user' = username
               /\ ev' = "keychainLogin"
               /\ UNCHANGED loginError
          ELSE /\ loginError' = LoginFailedError("user_cancel")
               /\ ev' = "keychainFailed"
               /\ UNCHANGED <<user, storage>>
  /\ UNCHANGED <<client, isKeychain, networkError, isLoading, connectionAttempts,
                 clientReady, probes, envVars, appObs, viewVars>>

\* The effect of EcencyCallback on /ecency-callback?username=..&access_token=..
EcencyCallback ==
  /\ RouterRendered
  /\ \E username \in Users \cup {Null}, accessToken \in {Null, "token"} :
       IF username # Null /\ accessToken # Null
       THEN /\ storage' = [setItem(storage, username) EXCEPT
                               !.hivesocial_token = accessToken,
                               !.hivesocial_token_expiry = "expiry"]
            /\ user' = username
       ELSE UNCHANGED <<user, storage>>
  /\ ev' = "ecencyLogin"
  /\ UNCHANGED <<client, isKeychain, networkError, isLoading, connectionAttempts,
                 clientReady, probes, loginVars, envVars, appObs, viewVars>>

Navbar_handleLogout ==
  /\ RouterRendered
  /\ user # Null
  /\ user' = Null
  /\ storage' = removeItem(storage)
  /\ ev' = "logout"
  /\ UNCHANGED <<client, isKeychain, networkError, isLoading, connectionAttempts,
                 clientReady, probes, loginVars, envVars, appObs, viewVars>>

\* The components that are not mounted hold their useState initial values
PostViewIdle ==
  /\ pvPermlink = "post-1"
  /\ pvPost = NoPost
  /\ pvComments = 0
  /\ pvLoading = TRUE
  /\ pvError = ""
  /\ pvCommentBody = ""
  /\ pvSubmittingComment = FALSE
  /\ pvCommentError = ""
  /\ pvVoted = FALSE
  /\ pvVoteWeight = 10000
  /\ pvFetches = {}
  /\ pvAgent = EmptyBag

CreatePostIdle ==
  /\ cpMounted = FALSE
  /\ cpTitle = ""
  /\ cpBody = ""
  /\ cpTags = ""
  /\ cpIsSubmitting = FALSE
  /\ cpError = ""
  /\ cpSuccessMessage = ""
  /\ cpPostingMethod = "direct"
  /\ cpTimeoutId = 0
  /\ cpTimers = {}
  /\ cpClearTimers = FALSE
  /\ cpRequests = EmptyBag
  /\ cpFired = {}

\* likePost has resolved nothing yet
NoResult ==
  [settled |-> FALSE, rejected |-> FALSE, success |-> FALSE, error |-> "",
   simulated |-> FALSE]

VoteIdle ==
  /\ suRequests = EmptyBag
  /\ suSleeps = EmptyBag
  /\ suResult = NoResult
  /\ postIsVoting = FALSE
  /\ postVoteError = ""
  /\ postHasVoted = FALSE

FollowIdle ==
  /\ suFollows = EmptyBag
  /\ fbIsFollowing = FALSE
  /\ fbLoading = TRUE
  /\ fbProcessing = FALSE
  /\ fbError = ""

PermlinkIdle ==
  /\ now = 0
  /\ minted = <<>>

SocialIdle == VoteIdle /\ FollowIdle /\ PermlinkIdle

\* Home's useState initial values, with no fetch started
HomeIdle ==
  /\ hmCategory = "trending"
  /\ hmPosts = <<>>
  /\ hmLoading = TRUE
  /\ hmError = ""
  /\ hmUsingSampleData = FALSE
  /\ hmFetches = EmptyBag
  /\ hmChain = 0

\* App after its mount effect: initializeApp has started the first probe
InitApp ==
  /\ LoginIdle
  /\ PostViewIdle
  /\ CreatePostIdle
  /\ SocialIdle
  /\ HomeIdle
  /\ keychainInstalled \in BOOLEAN
  /\ agentSilent = FALSE
  /\ storage \in [hivesocial_user : Users \cup {Null}, hivesocial_token : {Null},
                   hivesocial_token_expiry : {Null}]
  /\ user = storage.hivesocial_user
  /\ client = Null
  /\ isKeychain = keychainInstalled
  /\ networkError = Null
  /\ isLoading = TRUE
  /\ connectionAttempts = 0
  /\ clientReady = FALSE
  /\ probes = {0}
  /\ ev = "mount"
  /\ failedRun = 0
  /\ retries = 0
  /\ probedOk = FALSE

NextApp ==
  \/ App_ProbeSucceeds
  \/ App_ProbeFails
  \/ App_RetryConnection
  \/ Login_handleDirectLogin
  \/ Login_handleKeychainLogin
  \/ Login_KeychainCallback
  \/ EcencyCallback
  \/ Navbar_handleLogout

SpecApp == InitApp /\ [][NextApp]_vars

\* C16: after logout no session data of the login that preceded it is left in
\* localStorage, whichever way the user had logged in.
C16_LogoutClearsSession ==
  ev = "logout" =>
    /\ storage.hivesocial_user = Null
    /\ storage.hivesocial_token = Null
    /\ storage.hivesocial_token_expiry = Null

\* C7: the degraded-mode message is set only by the fourth consecutive failed
\* probe (the initial attempt and 3 retries), and a failed probe never starts
\* more than 3 automatic retries.
C7_DegradedAfterThreeRetries ==
  /\ retries <= MaxConnectionAttempts
  /\ (ev = "degraded" =>
        /\ networkError = ConnectError
        /\ failedRun = MaxConnectionAttempts + 1
        /\ retries = MaxConnectionAttempts)

C7_Witness == ev = "degraded" /\ failedRun = 4 /\ retries = 3 /\ probes = {}

\* C8: once a probe has succeeded the pool is ready, no further probe is in
\* flight and the degraded-mode message stays clear until the user retries.
C8_ReadyAfterFirstSuccess ==
  probedOk => /\ client # Null
              /\ clientReady
              /\ networkError = Null
              /\ probes = {}

\* C9: while the degraded-mode message is shown a client is provided and the
\* routed views (home, post, profile, create) are rendered.
C9_DegradedIsAdvisory ==
  (networkError # Null /\ ~isLoading) => (client # Null /\ RouterRendered)

\* C23: a retry probe is never issued by the step that handles the failure
\* which caused it (it waits for the 2-second timer): the failure handler of a
\* probe starts no probe, and leaves the render with the retry timer armed.
C23_RetryWaitsForTimer ==
  [][ev' = "probeFailed" =>
       /\ probes' \subseteq probes
       /\ RetryTimerArmed(connectionAttempts', clientReady')]_vars

\* C28: after every completed login (direct, Keychain, Ecency callback) and
\* every logout, the in-memory user equals the value stored under
\* hivesocial_user (null when the key is absent) and is not the empty string.
C28_UserMatchesStorage ==
  ev \in {"directLogin", "keychainLogin", "ecencyLogin", "logout"} =>
    /\ user = storage.hivesocial_user
    /\ user # ""

C28_Witness ==
  /\ ev = "logout"
  /\ user = Null
  /\ storage.hivesocial_user = Null
  /\ storage.hivesocial_token = "token"

\* C29: a Keychain login sets user and the stored hivesocial_user only in the
\* callback of a sign-buffer request whose response reports success, to the
\* username of that request; an empty username, a missing agent, a throwing
\* request call or a failed response leave user and storage as they were and
\* set the login error, and handing a request to the agent changes neither.
C29_KeychainLoginOnlyOnSuccess ==
  [][/\ ev' \in {"keychainRefused", "keychainFailed"} =>
          (user' = user /\ storage' = storage /\ loginError' # "")
     /\ ev' = "keychainRequested" =>
          (user' = user /\ storage' = storage /\ loginRequests' # {})
     /\ ev' = "keychainLogin" =>
          \E username \in loginRequests :
            /\ loginRequests' = loginRequests \ {username}
            /\ user' = username
            /\ storage' = [storage EXCEPT !.hivesocial_user = username]]_vars

C29_Witness ==
  /\ ev = "keychainFailed"
  /\ loginError = "Login failed: user_cancel"
  /\ user = Null
  /\ storage.hivesocial_user = Null
  /\ loginRequests # {}

----------------------------------------------------------------------------
(* PostView                                                                *)

\* Outstanding agent requests of one view
MaxPending == 2
\* fetchPost runs in flight at once
MaxFetches == 2
\* Range of the displayed vote count in which the vote button is still clicked
MaxNet == 1
\* Comments shown in the list
MaxComments == 2

Permlinks == {"post-1", "post-2"}
Author == "bob"

Vote(voter, percent) == [voter |-> voter, percent |-> percent]

\* get_content results the ledger can return for a post of Author; the percent
\* of a stored vote is within the ledger's range
LedgerVotes ==
  {<<>>, <<Vote("carol", 10000), Vote("alice", 5000)>>}

LedgerPost(permlink, votes) ==
  [author |-> Author, permlink |-> permlink, active_votes |-> votes,
   net_votes |-> Len(votes)]

\* Array.prototype.find on active_votes: whether a vote of the voter is found,
\* and the first such vote
HasVote(votes, voter) == \E i \in 1..Len(votes) : votes[i].voter = voter
FindVote(votes, voter) ==
  votes[CHOOSE i \in 1..Len(votes) :
          /\ votes[i].voter = voter
          /\ \A j \in 1..(i-1) : votes[j].voter # voter]

\* Array.prototype.filter(vote => vote.voter !== user)
RECURSIVE WithoutVoter(_, _)
WithoutVoter(votes, voter) ==
  IF votes = <<>> THEN <<>>
  ELSE IF Head(votes).voter = voter THEN WithoutVoter(Tail(votes), voter)
       ELSE <<Head(votes)>> \o WithoutVoter(Tail(votes), voter)

\* PostView's render: skeleton while loading, the error box alone while error is
\* set, "Post not found" without a post; otherwise the post with its controls
PostView_PostRendered == ~pvLoading /\ pvError = "" /\ pvPost # NoPost
PostView_CommentFormRendered == PostView_PostRendered /\ user # Null

\* The useEffect on [client, author, permlink, user]: fetchPost up to its await
PostView_Navigate ==
  /\ Cardinality(pvFetches) < MaxFetches
  /\ \E p \in Permlinks \ {pvPermlink} :
       /\ pvPermlink' = p
       /\ pvFetches' = pvFetches \cup {p}
  /\ pvLoading' = TRUE
  /\ pvError' = ""
  /\ ev' = "navigate"
  /\ UNCHANGED <<pvPost, pvComments, pvCommentBody, pvSubmittingComment,
                 pvCommentError, pvVoted, pvVoteWeight, pvAgent>>
  /\ UNCHANGED <<appVars, envVars, appObs, cpVars, suVars, idVars, hmVars>>

\* get_content and get_content_replies resolve with a post
PostView_FetchFound ==
  \E p \in pvFetches, votes \in LedgerVotes, n \in 0..1 :
    LET postData == LedgerPost(p, votes)
        found == user # Null /\ HasVote(votes, user) IN
    /\ pvFetches' = pvFetches \ {p}
    /\ pvPost' = postData
    /\ pvVoted' = IF found THEN TRUE ELSE pvVoted
    /\ pvVoteWeight' = IF found THEN FindVote(votes, user).percent ELSE pvVoteWeight
    /\ pvComments' = n
    /\ pvLoading' = FALSE
    /\ ev' = "fetchFound"
    /\ UNCHANGED <<pvPermlink, pvError, pvCommentBody, pvSubmittingComment,
                   pvCommentError, pvAgent>>
    /\ UNCHANGED <<appVars, envVars, appObs, cpVars, suVars, idVars, hmVars>>

\* get_content resolves without an author, or a call rejects
PostView_FetchFails ==
  \E p \in pvFetches, e \in {"Post not found", "Failed to load post"} :
    /\ pvFetches' = pvFetches \ {p}
    /\ pvError' = e
    /\ pvLoading' = FALSE
    /\ ev' = "fetchFailed"
    /\ UNCHANGED <<pvPermlink, pvPost, pvComments, pvCommentBody, pvSubmittingComment,
                   pvCommentError, pvVoted, pvVoteWeight, pvAgent>>
    /\ UNCHANGED <<appVars, envVars, appObs, cpVars, suVars, idVars, hmVars>>

\* The request handleVote hands to window.hive_keychain.requestVote, with the
\* values its callback closes over (voted, voteWeight, user)
VoteRequest ==
  [kind |-> "vote", user |-> user, permlink |-> pvPermlink, author |-> Author,
   weight |-> IF pvVoted THEN 0 ELSE pvVoteWeight,
   voted |-> pvVoted, voteWeight |-> pvVoteWeight]

\* handleVote does not look at the requests already outstanding
PostView_MayRequestVote(pending) == TRUE

PostView_handleVote ==
  /\ PostView_PostRendered
  /\ pvPost.net_votes \in (0 - MaxNet)..MaxNet
  /\ IF user = Null \/ ~isKeychain
     THEN /\ pvError' = "Please login with Hive Keychain to vote"
          /\ UNCHANGED pvAgent
          /\ ev' = "voteRefused"
     ELSE /\ BagCardinality(pvAgent) < MaxPending
          /\ PostView_MayRequestVote(pvAgent)
          /\ pvAgent' = pvAgent (+) SetToBag({VoteRequest})
          /\ UNCHANGED pvError
          /\ ev' = "voteRequested"
  /\ UNCHANGED <<pvPermlink, pvPost, pvComments, pvLoading, pvCommentBody,
                 pvSubmittingComment, pvCommentError, pvVoted, pvVoteWeight, pvFetches>>
  /\ UNCHANGED <<appVars, envVars, appObs, cpVars, suVars, idVars, hmVars>>

\* The post after a reported success, built from the previous post and the
\* closed-over voted / voteWeight / user
VotedPost(prevPost, r) ==
  IF prevPost = NoPost THEN NoPost
  ELSE [prevPost EXCEPT
          !.active_votes = IF ~r.voted
                           THEN Append(prevPost.active_votes, Vote(r.user, r.voteWeight))
                           ELSE WithoutVoter(prevPost.active_votes, r.user),
          !.net_votes = IF r.voted THEN prevPost.net_votes - 1
                        ELSE prevPost.net_votes + 1]

\* The callback of requestVote
PostView_VoteCallback ==
  /\ ~agentSilent
  /\ \E r \in BagToSet(pvAgent), success \in BOOLEAN :
       /\ r.kind = "vote"
       /\ pvAgent' = pvAgent (-) SetToBag({r})
       /\ IF success
          THEN /\ pvVoted' = ~r.voted
               /\ pvPost' = VotedPost(pvPost, r)
               /\ UNCHANGED pvError
               /\ ev' = "voteAccepted"
          ELSE /\ pvError' = "Voting failed"
               /\ UNCHANGED <<pvVoted, pvPost>>
               /\ ev' = "voteRejected"
  /\ UNCHANGED <<pvPermlink, pvComments, pvLoading, pvCommentBody,
                 pvSubmittingComment, pvCommentError, pvVoteWeight, pvFetches>>
  /\ UNCHANGED <<appVars, envVars, appObs, cpVars, suVars, idVars, hmVars>>

\* The comment textarea's onChange
PostView_setCommentBody ==
  /\ PostView_CommentFormRendered
  /\ \E b \in {"", " ", "hi"} :
       /\ b # pvCommentBody
       /\ pvCommentBody' = b
  /\ ev' = "commentTyped"
  /\ UNCHANGED <<pvPermlink, pvPost, pvComments, pvLoading, pvError,
                 pvSubmittingComment, pvCommentError, pvVoted, pvVoteWeight,
                 pvFetches, pvAgent>>
  /\ UNCHANGED <<appVars, envVars, appObs, cpVars, suVars, idVars, hmVars>>

\* String.prototype.trim on the inputs used here
Trim(str) == IF str = " " THEN "" ELSE str

CommentRequest ==
  [kind |-> "comment", user |-> user, permlink |-> pvPermlink, author |-> Author,
   body |-> pvCommentBody]

\* PostView.handleComment, from its first check to the requestComment call
PostView_handleCommentRun ==
  /\ pvComments < MaxComments
  /\ IF Trim(pvCommentBody) = ""
     THEN /\ pvCommentError' = "Please enter a comment"
          /\ UNCHANGED <<pvSubmittingComment, pvAgent>>
          /\ ev' = "commentRefused"
     ELSE IF user = Null \/ ~isKeychain
     THEN /\ pvCommentError' = "Please login with Hive Keychain to comment"
          /\ UNCHANGED <<pvSubmittingComment, pvAgent>>
          /\ ev' = "commentRefused"
     ELSE /\ BagCardinality(pvAgent) < MaxPending
          /\ pvSubmittingComment' = TRUE
          /\ pvCommentError' = ""
          /\ pvAgent' = pvAgent (+) SetToBag({CommentRequest})
          /\ ev' = "commentRequested"
  /\ UNCHANGED <<pvPermlink, pvPost, pvComments, pvLoading, pvError, pvCommentBody,
                 pvVoted, pvVoteWeight, pvFetches>>
  /\ UNCHANGED <<appVars, envVars, appObs, cpVars, suVars, idVars, hmVars>>

\* The comment form (rendered if user; its button disabled while
\* submittingComment)
PostView_handleComment ==
  /\ PostView_CommentFormRendered
  /\ ~pvSubmittingComment
  /\ PostView_handleCommentRun

\* The callback of requestComment
PostView_CommentCallback ==
  /\ ~agentSilent
  /\ \E r \in BagToSet(pvAgent), success \in BOOLEAN :
       /\ r.kind = "comment"
       /\ pvAgent' = pvAgent (-) SetToBag({r})
       /\ pvSubmittingComment' = FALSE
       /\ IF success
          THEN /\ pvCommentBody' = ""
               /\ pvComments' = pvComments + 1
               /\ UNCHANGED pvCommentError
               /\ ev' = "commentAccepted"
          ELSE /\ pvCommentError' = "Comment failed"
               /\ UNCHANGED <<pvCommentBody, pvComments>>
               /\ ev' = "commentRejected"
  /\ UNCHANGED <<pvPermlink, pvPost, pvLoading, pvError, pvVoted, pvVoteWeight,
                 pvFetches>>
  /\ UNCHANGED <<appVars, envVars, appObs, cpVars, suVars, idVars, hmVars>>

\* The context a routed view sees once App has connected
AppConnected ==
  /\ LoginIdle
  /\ keychainInstalled \in BOOLEAN
  /\ storage \in [hivesocial_user : {Null, "alice"}, hivesocial_token : {Null},
                   hivesocial_token_expiry : {Null}]
  /\ user = storage.hivesocial_user
  /\ client = "client"
  /\ isKeychain = keychainInstalled
  /\ networkError = Null
  /\ isLoading = FALSE
  /\ connectionAttempts = 0
  /\ clientReady = TRUE
  /\ probes = {}
  /\ failedRun = 0
  /\ retries = 0
  /\ probedOk = TRUE

\* PostView after its mount effect: the first fetchPost is in flight
InitPostView ==
  /\ AppConnected
  /\ agentSilent \in BOOLEAN
  /\ pvPermlink = "post-1"
  /\ pvPost = NoPost
  /\ pvComments = 0
  /\ pvLoading = TRUE
  /\ pvError = ""
  /\ pvCommentBody = ""
  /\ pvSubmittingComment = FALSE
  /\ pvCommentError = ""
  /\ pvVoted = FALSE
  /\ pvVoteWeight = 10000
  /\ pvFetches = {"post-1"}
  /\ pvAgent = EmptyBag
  /\ CreatePostIdle
  /\ SocialIdle
  /\ HomeIdle
  /\ ev = "mount"

NextPostViewVote ==
  \/ PostView_Navigate
  \/ PostView_FetchFound
  \/ PostView_FetchFails
  \/ PostView_handleVote
  \/ PostView_VoteCallback

NextPostViewComment ==
  \/ PostView_Navigate
  \/ PostView_FetchFound
  \/ PostView_FetchFails
  \/ PostView_setCommentBody
  \/ PostView_handleComment
  \/ PostView_CommentCallback

\* PostView with its vote button, and PostView with its comment form
SpecPostViewVote == InitPostView /\ [][NextPostViewVote]_vars
SpecPostViewComment == InitPostView /\ [][NextPostViewComment]_vars

\* The signing agent is outside the program; the runtime guarantees only that a
\* callback the agent does invoke, and a settled network call, are delivered.
FairSpecPostViewComment ==
  /\ SpecPostViewComment
  /\ WF_vars(PostView_CommentCallback)
  /\ WF_vars(PostView_FetchFound \/ PostView_FetchFails)

\* C26: whenever a post is displayed with no load and no vote under way,
\* voted is true exactly when the post's active_votes holds an entry of the
\* signed-in user, and active_votes holds at most one such entry.
C26_VotedMatchesActiveVotes ==
  (PostView_PostRendered /\ pvFetches = {} /\ pvAgent = EmptyBag) =>
    /\ pvVoted <=> (user # Null /\ HasVote(pvPost.active_votes, user))
    /\ Cardinality({i \in 1..Len(pvPost.active_votes) :
                      pvPost.active_votes[i].voter = user}) <= 1

\* C1: at most one vote of an actor on a target awaits its result; a second
\* click while the first is pending does not reach the signing agent.
C1_AtMostOnePendingVote ==
  \A r \in BagToSet(pvAgent) :
    /\ CopiesIn(r, pvAgent) = 1
    /\ \A q \in BagToSet(pvAgent) :
         (q.kind = r.kind /\ q.user = r.user /\ q.permlink = r.permlink) => q = r

\* C3: when the agent reports a vote as failed, voted is what it was when the
\* vote was requested, the post is untouched, an error is set and the vote
\* button is rendered again.
C3_RejectedVoteRestoresControl ==
  [][ev' = "voteRejected" =>
       \E r \in BagToSet(pvAgent) :
         /\ r.kind = "vote"
         /\ pvAgent' = pvAgent (-) SetToBag({r})
         /\ pvVoted' = r.voted
         /\ pvPost' = pvPost
         /\ pvError' # ""
         /\ PostView_PostRendered']_vars

\* C5: a comment handed to the signing agent eventually resolves, so
\* submittingComment does not stay true forever, even when the agent never
\* invokes its callback.
C5_CommentEventuallyResolves == pvSubmittingComment ~> ~pvSubmittingComment

----------------------------------------------------------------------------
(* CreatePost                                                              *)

\* Publish requests in flight at once
MaxPosts == 1

\* Deadline timers armed at once, besides the one timeoutId holds
MaxTimers == 1

\* Timer ids are opaque handles: setTimeout returns one that nothing refers to
TimerIds == 1..(MaxTimers + MaxPosts + 1)
TimerIdsInUse ==
  cpTimers \cup {cpTimeoutId} \cup cpFired \cup {r.timer : r \in BagToSet(cpRequests)}
NewTimerId == CHOOSE t \in TimerIds \ TimerIdsInUse :
                \A u \in TimerIds \ TimerIdsInUse : t <= u

\* The key prompt's answer, as the observer ev records it
Prompted(k) == IF k = "" THEN "promptEmpty"
               ELSE IF k = "not-a-key" THEN "promptUnparsable"
               ELSE "promptKey"

\* What prompt() returns: "" for an empty answer or Cancel (null), a string
\* PrivateKey.from rejects, a posting key it accepts
Keys == {"", "not-a-key", "5Jposting"}

\* PrivateKey.from(postingKeyString) returns instead of throwing
KeyParses(k) == k = "5Jposting"

KeyOutcomeUnparsed(k) == IF k = "" THEN "required" ELSE "send"

\* The key checks shared by handleSubmit, handleSimplePost and handleDirectPost
KeyOutcome(k) ==
  IF k = "" THEN "required"
  ELSE IF ~KeyParses(k) THEN "invalid"
  ELSE "send"

\* The messages, up to the words the three flows share
KeyRequiredError == "Posting key is required"
InvalidKeyError == "Invalid private key format"
KeyErrorSilent(k) == ""

KeyError(k) == IF KeyOutcome(k) = "required" THEN KeyRequiredError ELSE InvalidKeyError
TimedOutError == "Posting timed out. Please try again."

\* The first failing check of handleSubmit, "" when all pass
SubmitValidationAnonymous ==
  IF Trim(cpTitle) = "" THEN "Please enter a title"
  ELSE IF Trim(cpBody) = "" THEN "Please enter content for your post"
  ELSE IF Trim(cpTags) = "" THEN "Please enter at least one tag"
  ELSE ""

\* The first failing check of handleSubmit
SubmitValidation ==
  IF user = Null THEN "You must be logged in to create a post"
  ELSE IF Trim(cpTitle) = "" THEN "Please enter a title"
  ELSE IF Trim(cpBody) = "" THEN "Please enter content for your post"
  ELSE IF Trim(cpTags) = "" THEN "Please enter at least one tag"
  ELSE ""

\* The first failing check of handleDirectPost
DirectValidation ==
  IF user = Null THEN "You must be logged in to create a post"
  ELSE IF Trim(cpTitle) = "" THEN "Please enter a title"
  ELSE IF Trim(cpBody) = "" THEN "Please enter content for your post"
  ELSE ""

PostRequest(kind, origin, timer) == [kind |-> kind, origin |-> origin, timer |-> timer]

SettledResent(r) == cpRequests

\* The requests in flight once r has been answered: nothing re-sends it
Settled(r) == cpRequests (-) SetToBag({r})

\* The cleanup of the effect on [timeoutId] clears the previous id when the
\* committed timeoutId differs from it
TimersAfterCommit(timers, newId) ==
  IF cpTimeoutId # newId THEN timers \ {cpTimeoutId} ELSE timers

\* What the title, body and tags inputs are edited to: one content for each
\* outcome of the checks of handleSubmit and handleDirectPost
Forms == { <<"", "", "">>,
           <<"Hello World", " ", "intro">>,
           <<"Hello World", "text", "">>,
           <<"Hello World", "text", "intro">> }

\* onChange of the title, body and tags inputs, up to one of Forms
CreatePost_setField ==
  /\ cpMounted
  /\ \E f \in Forms :
       /\ f # <<cpTitle, cpBody, cpTags>>
       /\ cpTitle' = f[1]
       /\ cpBody' = f[2]
       /\ cpTags' = f[3]
  /\ ev' = "input"
  /\ UNCHANGED <<cpMounted, cpIsSubmitting, cpError, cpSuccessMessage, cpPostingMethod,
                 cpTimeoutId, cpTimers, cpClearTimers, cpRequests, cpFired>>
  /\ UNCHANGED <<appVars, envVars, appObs, pvVars, suVars, idVars, hmVars>>

\* The posting-method radio buttons; the Keychain one is rendered only with
\* window.hive_keychain
CreatePost_setPostingMethod ==
  /\ cpMounted
  /\ \E m \in {"keychain", "direct"} :
       /\ m # cpPostingMethod
       /\ m = "keychain" => keychainInstalled
       /\ cpPostingMethod' = m
  /\ ev' = "input"
  /\ UNCHANGED <<cpMounted, cpTitle, cpBody, cpTags, cpIsSubmitting, cpError,
                 cpSuccessMessage, cpTimeoutId, cpTimers, cpClearTimers,
                 cpRequests, cpFired>>
  /\ UNCHANGED <<appVars, envVars, appObs, pvVars, suVars, idVars, hmVars>>

\* The form's onSubmit ("Publish Post", disabled while isSubmitting), up to the
\* agent request or the await of sendOperations
CreatePost_handleSubmit ==
  /\ cpMounted
  /\ ~cpIsSubmitting
  /\ IF SubmitValidation # ""
     THEN /\ cpError' = SubmitValidation
          /\ ev' = "refused"
          /\ UNCHANGED <<cpIsSubmitting, cpRequests>>
     ELSE IF cpPostingMethod = "keychain" /\ keychainInstalled
     THEN /\ BagCardinality(cpRequests) < MaxPosts
          /\ cpRequests' = cpRequests (+) SetToBag({PostRequest("agent", "submit", 0)})
          /\ cpIsSubmitting' = TRUE
          /\ cpError' = ""
          /\ ev' = "requested"
     ELSE IF cpPostingMethod = "direct"
     THEN \E k \in Keys :
            /\ ev' = Prompted(k)
            /\ IF KeyOutcome(k) = "send"
               THEN /\ BagCardinality(cpRequests) < MaxPosts
                    /\ cpRequests' = cpRequests (+) SetToBag({PostRequest("send", "submit", 0)})
                    /\ cpIsSubmitting' = TRUE
                    /\ cpError' = ""
               ELSE /\ cpError' = KeyError(k)
                    /\ cpIsSubmitting' = FALSE
                    /\ UNCHANGED cpRequests
     ELSE /\ cpError' = "No posting method available"
          /\ cpIsSubmitting' = FALSE
          /\ ev' = "refused"
          /\ UNCHANGED cpRequests
  /\ UNCHANGED <<cpMounted, cpTitle, cpBody, cpTags, cpSuccessMessage, cpPostingMethod,
                 cpTimeoutId, cpTimers, cpClearTimers, cpFired>>
  /\ UNCHANGED <<appVars, envVars, appObs, pvVars, suVars, idVars, hmVars>>

\* The callback of requestPost
CreatePost_PostCallback ==
  /\ cpMounted
  /\ ~agentSilent
  /\ \E r \in BagToSet(cpRequests), success \in BOOLEAN :
       /\ r.kind = "agent"
       /\ cpRequests' = Settled(r)
       /\ cpIsSubmitting' = FALSE
       /\ IF success
          THEN /\ cpSuccessMessage' = "Post published successfully!"
               /\ cpClearTimers' = TRUE
               /\ UNCHANGED cpError
               /\ ev' = "postAccepted"
          ELSE /\ cpError' = "Failed to publish post"
               /\ UNCHANGED <<cpSuccessMessage, cpClearTimers>>
               /\ ev' = "postRejected"
  /\ UNCHANGED <<cpMounted, cpTitle, cpBody, cpTags, cpPostingMethod, cpTimeoutId,
                 cpTimers, cpFired>>
  /\ UNCHANGED <<appVars, envVars, appObs, pvVars, suVars, idVars, hmVars>>

\* handleSubmit's sendOperations settles: the continuation after the await,
\* or the inner catch
CreatePost_SubmitSettles ==
  /\ cpMounted
  /\ \E r \in BagToSet(cpRequests), success \in BOOLEAN :
       /\ r.kind = "send" /\ r.origin = "submit"
       /\ cpRequests' = Settled(r)
       /\ IF success
          THEN /\ cpSuccessMessage' = "Post published successfully!"
               /\ cpClearTimers' = TRUE
               /\ UNCHANGED <<cpError, cpIsSubmitting>>
               /\ ev' = "postAccepted"
          ELSE /\ cpError' = "Failed to publish post"
               /\ cpIsSubmitting' = FALSE
               /\ UNCHANGED <<cpSuccessMessage, cpClearTimers>>
               /\ ev' = "postRejected"
  /\ UNCHANGED <<cpMounted, cpTitle, cpBody, cpTags, cpPostingMethod, cpTimeoutId,
                 cpTimers, cpFired>>
  /\ UNCHANGED <<appVars, envVars, appObs, pvVars, suVars, idVars, hmVars>>

\* "Create Test Post": never disabled
CreatePost_handleSimplePostUpTo(cap) ==
  /\ cpMounted
  /\ IF user = Null
     THEN /\ cpError' = "You must be logged in to create a post"
          /\ ev' = "refused"
          /\ UNCHANGED <<cpIsSubmitting, cpRequests>>
     ELSE \E k \in Keys :
            /\ ev' = Prompted(k)
            /\ IF KeyOutcome(k) = "send"
               THEN /\ BagCardinality(cpRequests) < cap
                    /\ cpRequests' = cpRequests (+) SetToBag({PostRequest("send", "simple", 0)})
                    /\ cpIsSubmitting' = TRUE
                    /\ cpError' = ""
               ELSE /\ cpError' = KeyError(k)
                    /\ cpIsSubmitting' = FALSE
                    /\ UNCHANGED cpRequests
  /\ UNCHANGED <<cpMounted, cpTitle, cpBody, cpTags, cpSuccessMessage, cpPostingMethod,
                 cpTimeoutId, cpTimers, cpClearTimers, cpFired>>
  /\ UNCHANGED <<appVars, envVars, appObs, pvVars, suVars, idVars, hmVars>>

CreatePost_handleSimplePost == CreatePost_handleSimplePostUpTo(MaxPosts)

\* handleSimplePost's sendOperations settles; finally setIsSubmitting(false)
CreatePost_SimpleSettles ==
  /\ cpMounted
  /\ \E r \in BagToSet(cpRequests), success \in BOOLEAN :
       /\ r.kind = "send" /\ r.origin = "simple"
       /\ cpRequests' = Settled(r)
       /\ cpIsSubmitting' = FALSE
       /\ IF success
          THEN /\ cpSuccessMessage' = "Test post published successfully!"
               /\ UNCHANGED cpError
               /\ ev' = "postAccepted"
          ELSE /\ cpError' = "Failed to broadcast"
               /\ UNCHANGED cpSuccessMessage
               /\ ev' = "postRejected"
  /\ UNCHANGED <<cpMounted, cpTitle, cpBody, cpTags, cpPostingMethod, cpTimeoutId,
                 cpTimers, cpClearTimers, cpFired>>
  /\ UNCHANGED <<appVars, envVars, appObs, pvVars, suVars, idVars, hmVars>>

\* "Simple Post" (disabled while isSubmitting).  resetFormState is the closure
\* of the render the click happened in: it clears the timer of that render's
\* timeoutId, not the one this call starts.
CreatePost_handleDirectPost ==
  /\ cpMounted
  /\ ~cpIsSubmitting
  /\ IF DirectValidation # ""
     THEN /\ cpError' = DirectValidation
          /\ ev' = "refused"
          /\ UNCHANGED <<cpIsSubmitting, cpRequests, cpTimeoutId, cpTimers>>
     ELSE /\ Cardinality(cpTimers \ {cpTimeoutId}) < MaxTimers
          /\ \E k \in Keys :
               LET timeout == NewTimerId
                   armed == (cpTimers \ {cpTimeoutId}) \cup {timeout}
                   \* resetFormState after a refused key: setTimeoutId(null)
                   \* only if the closure's timeoutId is set
                   kept == IF cpTimeoutId # 0 THEN 0 ELSE timeout IN
               /\ ev' = Prompted(k)
               /\ IF KeyOutcome(k) = "send"
                  THEN /\ BagCardinality(cpRequests) < MaxPosts
                       /\ cpRequests' =
                            cpRequests (+) SetToBag({PostRequest("send", "direct", timeout)})
                       /\ cpIsSubmitting' = TRUE
                       /\ cpError' = ""
                       /\ cpTimeoutId' = timeout
                       /\ cpTimers' = TimersAfterCommit(armed, timeout)
                  ELSE /\ cpError' = KeyError(k)
                       /\ cpIsSubmitting' = FALSE
                       /\ cpTimeoutId' = kept
                       /\ cpTimers' = TimersAfterCommit(armed, kept)
                       /\ UNCHANGED cpRequests
  /\ UNCHANGED <<cpMounted, cpTitle, cpBody, cpTags, cpSuccessMessage, cpPostingMethod,
                 cpClearTimers, cpFired>>
  /\ UNCHANGED <<appVars, envVars, appObs, pvVars, suVars, idVars, hmVars>>

\* handleDirectPost's sendOperations settles: clearTimeout(timeout),
\* setTimeoutId(null), then the success or the error branch
CreatePost_DirectSettles ==
  /\ cpMounted
  /\ \E r \in BagToSet(cpRequests), success \in BOOLEAN :
       /\ r.kind = "send" /\ r.origin = "direct"
       /\ cpRequests' = Settled(r)
       /\ cpTimeoutId' = 0
       /\ cpTimers' = TimersAfterCommit(cpTimers \ {r.timer}, 0)
       /\ cpFired' = cpFired \ {r.timer}
       /\ cpIsSubmitting' = FALSE
       /\ IF success
          THEN /\ cpSuccessMessage' = "Post published successfully!"
               /\ cpClearTimers' = TRUE
               /\ UNCHANGED cpError
               /\ ev' = "postAccepted"
          ELSE /\ cpError' = "Failed to publish post"
               /\ UNCHANGED <<cpSuccessMessage, cpClearTimers>>
               /\ ev' = "postRejected"
  /\ UNCHANGED <<cpMounted, cpTitle, cpBody, cpTags, cpPostingMethod>>
  /\ UNCHANGED <<appVars, envVars, appObs, pvVars, suVars, idVars, hmVars>>

\* The 30 s deadline timer of handleDirectPost fires
CreatePost_DeadlineFires ==
  /\ cpMounted
  /\ \E t \in cpTimers :
       /\ cpTimers' = cpTimers \ {t}
       /\ cpFired' = IF \E r \in BagToSet(cpRequests) : r.timer = t
                     THEN cpFired \cup {t} ELSE cpFired
  /\ cpIsSubmitting' = FALSE
  /\ cpError' = TimedOutError
  /\ ev' = "deadlineFired"
  /\ UNCHANGED <<cpMounted, cpTitle, cpBody, cpTags, cpSuccessMessage, cpPostingMethod,
                 cpTimeoutId, cpClearTimers, cpRequests>>
  /\ UNCHANGED <<appVars, envVars, appObs, pvVars, suVars, idVars, hmVars>>

\* "Reset Form State": resetFormState, then the notice
CreatePost_forceReset ==
  /\ cpMounted
  /\ cpIsSubmitting' = FALSE
  /\ cpTimers' = cpTimers \ {cpTimeoutId}
  /\ cpTimeoutId' = 0
  /\ cpError' = "Form state has been reset."
  /\ ev' = "forceReset"
  /\ UNCHANGED <<cpMounted, cpTitle, cpBody, cpTags, cpSuccessMessage, cpPostingMethod,
                 cpClearTimers, cpRequests, cpFired>>
  /\ UNCHANGED <<appVars, envVars, appObs, pvVars, suVars, idVars, hmVars>>

\* The 2 s timer started by an accepted publish: clear the fields and navigate,
\* which unmounts the form (the unmount cleanup clears timeoutId's timer)
CreatePost_ClearAndNavigate ==
  /\ cpMounted
  /\ cpClearTimers
  /\ cpClearTimers' = FALSE
  /\ cpTitle' = ""
  /\ cpBody' = ""
  /\ cpTags' = ""
  /\ cpSuccessMessage' = ""
  /\ cpMounted' = FALSE
  /\ cpTimers' = cpTimers \ {cpTimeoutId}
  /\ ev' = "cleared"
  /\ UNCHANGED <<cpIsSubmitting, cpError, cpPostingMethod, cpTimeoutId,
                 cpRequests, cpFired>>
  /\ UNCHANGED <<appVars, envVars, appObs, pvVars, suVars, idVars, hmVars>>

\* CreatePost as mounted under a connected App
InitCreatePost ==
  /\ AppConnected
  /\ agentSilent = FALSE
  /\ PostViewIdle
  /\ SocialIdle
  /\ HomeIdle
  /\ cpMounted = TRUE
  /\ cpTitle = ""
  /\ cpBody = ""
  /\ cpTags = ""
  /\ cpIsSubmitting = FALSE
  /\ cpError = ""
  /\ cpSuccessMessage = ""
  /\ cpPostingMethod = IF isKeychain THEN "keychain" ELSE "direct"
  /\ cpTimeoutId = 0
  /\ cpTimers = {}
  /\ cpClearTimers = FALSE
  /\ cpRequests = EmptyBag
  /\ cpFired = {}
  /\ ev = "mount"

NextCreatePost ==
  \/ CreatePost_setField
  \/ CreatePost_setPostingMethod
  \/ CreatePost_handleSubmit
  \/ CreatePost_PostCallback
  \/ CreatePost_SubmitSettles
  \/ CreatePost_handleSimplePost
  \/ CreatePost_SimpleSettles
  \/ CreatePost_handleDirectPost
  \/ CreatePost_DirectSettles
  \/ CreatePost_DeadlineFires
  \/ CreatePost_forceReset
  \/ CreatePost_ClearAndNavigate

SpecCreatePost == InitCreatePost /\ [][NextCreatePost]_vars

\* Test posts unresolved at once in the debug panel's own specification
MaxTestPosts == 2

\* The debug panel of the form alone: the fields, "Create Test Post" with its
\* settlement, and "Reset Form State"
NextCreatePostTest ==
  \/ CreatePost_setField
  \/ CreatePost_handleSimplePostUpTo(MaxTestPosts)
  \/ CreatePost_SimpleSettles
  \/ CreatePost_forceReset

SpecCreatePostTest == InitCreatePost /\ [][NextCreatePostTest]_vars

\* C2: in every key-signed publish flow (handleSubmit's direct path,
\* handleSimplePost, handleDirectPost), when the key typed into the prompt is
\* empty or does not parse, the handler starts no sendOperations call and
\* leaves the key-required / invalid-key error shown, with isSubmitting false.
C2_BadKeyNeverBroadcasts ==
  [][ev' \in {"promptEmpty", "promptUnparsable"} =>
       /\ cpRequests' = cpRequests
       /\ cpError' = (IF ev' = "promptEmpty" THEN KeyRequiredError ELSE InvalidKeyError)
       /\ ~cpIsSubmitting']_vars

\* A key that does not parse was refused by handleDirectPost, whose deadline
\* timer is armed, with no request in flight
C2_Witness ==
  /\ ev = "promptUnparsable"
  /\ cpError = InvalidKeyError
  /\ cpTimers # {}
  /\ cpRequests = EmptyBag

\* C4: after a publish that resolved as accepted, isSubmitting is false again,
\* on the agent-signed path and on the key-signed paths alike.
C4_AcceptedReenablesControl == ev = "postAccepted" => ~cpIsSubmitting

\* C6: once the 30 s deadline of a handleDirectPost call has fired, the later
\* settlement of that call's sendOperations changes neither the error nor the
\* success message on display.
C6_SettlementAfterDeadlineIgnored ==
  [][(\E r \in BagToSet(cpRequests) :
        /\ r.origin = "direct"
        /\ r.timer \in cpFired
        /\ cpRequests' = cpRequests (-) SetToBag({r}))
     => (cpError' = cpError /\ cpSuccessMessage' = cpSuccessMessage)]_vars

\* Added(r): the step hands request r to the agent or to sendOperations
Added(r) == CopiesIn(r, cpRequests') > CopiesIn(r, cpRequests)

\* C11: a publish whose title, body or tags are empty after trimming is
\* refused by handleSubmit and by handleDirectPost alike: neither requestPost
\* nor sendOperations is called with the form's fields.
C11_EmptyFieldsNeverSubmitted ==
  [][\A r \in BagToSet(cpRequests') :
       (r.origin \in {"submit", "direct"} /\ Added(r)) =>
         (Trim(cpTitle) # "" /\ Trim(cpBody) # "" /\ Trim(cpTags) # "")]_vars

\* C13: nothing is retried automatically.  A request is started only by a step
\* of a user's click or submit, one request per step, and the settlement that
\* reports a rejection takes its request out of flight without starting another.
C13_NoAutomaticRetry ==
  [][/\ BagCardinality(cpRequests') <= BagCardinality(cpRequests) + 1
     /\ BagCardinality(cpRequests') > BagCardinality(cpRequests)
          => ev' \in {"requested", "promptKey"}
     /\ ev' \in {"postRejected", "postAccepted"}
          => BagCardinality(cpRequests') = BagCardinality(cpRequests) - 1]_vars

\* A rejected publish has left nothing in flight
C13_Witness ==
  /\ ev = "postRejected"
  /\ cpRequests = EmptyBag
  /\ ~cpIsSubmitting

\* C14: a publish that fails at validation, at the key prompt, at the agent,
\* at the broadcast or at the deadline leaves title, body and tags as typed and
\* a non-empty error shown; the fields are cleared only with the success
\* message of an accepted publish on display.
C14_FailureKeepsInput ==
  [][/\ ev' \in {"refused", "promptEmpty", "promptUnparsable", "postRejected",
                "deadlineFired"}
          => /\ <<cpTitle', cpBody', cpTags'>> = <<cpTitle, cpBody, cpTags>>
             /\ cpError' # ""
     /\ ev' = "cleared" => cpSuccessMessage # ""]_vars

\* The deadline fired on a filled form
C14_Witness ==
  /\ ev = "deadlineFired"
  /\ cpError = TimedOutError
  /\ <<cpTitle, cpBody, cpTags>> = <<"Hello World", "text", "intro">>

\* C15: the signing path is fixed when the session is established (isKeychain):
\* every publish of the session goes to the agent in a Keychain session and to
\* sendOperations with a typed key otherwise.
C15_OneSigningPathPerSession ==
  [][\A r \in BagToSet(cpRequests') :
       Added(r) => r.kind = (IF isKeychain THEN "agent" ELSE "send")]_vars

\* C25: the form never has two publish submissions in flight: a requestPost
\* or sendOperations call is never started while an earlier one has not
\* settled.
C25_OneSubmissionInFlight == BagCardinality(cpRequests) <= 1

\* C24: when a publish attempt ends at the key prompt (cancelled, empty or
\* unparsable key), the deadline timer started for the attempt is cancelled
\* in the same step: the step leaves no timer armed that was not armed before
\* it, so the key error is not replaced by 'Posting timed out' later.
C24_KeyFailureCancelsDeadline ==
  [][(ev' \in {"promptEmpty", "promptUnparsable"} /\ cpRequests' = cpRequests)
       => cpTimers' \subseteq cpTimers]_vars

----------------------------------------------------------------------------
(* SocialUtils.likePost and the feed's Post card                           *)

\* likePost calls unresolved at once
MaxLikes == 2

\* weight = 10000 by default: "10000 = 100% upvote"
FullWeight == 10000

\* The weight argument: the ends of the chain's range, no vote, and the first
\* value past each end
Weights == {-(FullWeight + 1), -FullWeight, 0, FullWeight, FullWeight + 1}

\* HiveContext's user is a string (or null), so user.name is undefined
UserName(u) == Undefined

\* What a promise returned by a SocialUtils function settles with: a result
\* object it resolves to, or the error it rejects with
Result(success, error, simulated) ==
  [settled |-> TRUE, rejected |-> FALSE, success |-> success, error |-> error,
   simulated |-> simulated]

Rejection(message) ==
  [settled |-> TRUE, rejected |-> TRUE, success |-> FALSE, error |-> message,
   simulated |-> FALSE]

\* The message of the error a requestBroadcast call throws when the injected
\* window.hive_keychain object does not carry that method
AgentThrows == "window.hive_keychain.requestBroadcast is not a function"

\* "return new Promise(executor)" inside the try of an async function, not
\* awaited: an executor that throws rejects the returned promise, and the
\* function's catch, which covers only the synchronous part of the try, does
\* not run
ExecutorThrows(message) == Rejection(message)

VoteOp(username, postAuthor, postPermlink, weight, caller) ==
  [voter |-> username, author |-> postAuthor, permlink |-> postPermlink,
   weight |-> weight, caller |-> caller]

\* likePost's first check: !client || !username
LikePostRefuses(c, username) == c = Null \/ username \in {Null, Undefined, ""}

\* likePost up to its first await or its return: the refusal, the
\* requestBroadcast call, or the start of the simulated wait
likePost(c, username, postAuthor, postPermlink, weight, caller, throws) ==
  IF LikePostRefuses(c, username)
  THEN /\ ~throws
       /\ suResult' = Result(FALSE, "Client or username not provided", FALSE)
       /\ UNCHANGED <<suRequests, suSleeps>>
  ELSE IF throws
  THEN /\ keychainInstalled
       /\ suResult' = ExecutorThrows(AgentThrows)
       /\ UNCHANGED <<suRequests, suSleeps>>
  ELSE /\ BagCardinality(suRequests (+) suSleeps) < MaxLikes
       /\ IF keychainInstalled
          THEN /\ suRequests' = suRequests (+)
                    SetToBag({VoteOp(username, postAuthor, postPermlink, weight, caller)})
               /\ UNCHANGED suSleeps
          ELSE /\ suSleeps' = suSleeps (+)
                    SetToBag({VoteOp(username, postAuthor, postPermlink, weight, caller)})
               /\ UNCHANGED suRequests
       /\ UNCHANGED suResult

\* Post.handleVote after its await: setHasVoted(true) or setVoteError, in the
\* catch 'Error voting: ' + err.message, and in the finally setIsVoting(false)
Post_VoteContinues(result) ==
  /\ postIsVoting' = FALSE
  /\ IF result.rejected
     THEN postVoteError' = "Error voting: " \o result.error /\ UNCHANGED postHasVoted
     ELSE IF result.success
     THEN postHasVoted' = TRUE /\ UNCHANGED postVoteError
     ELSE postVoteError' = result.error /\ UNCHANGED postHasVoted

\* A caller of the exported likePost other than the Post card
Social_likePost ==
  /\ \E c \in {Null, "client"}, username \in {Undefined, "alice"}, weight \in Weights,
        throws \in BOOLEAN :
       likePost(c, username, Author, "post-1", weight, "util", throws)
  /\ ev' = "likePost"
  /\ UNCHANGED <<postIsVoting, postVoteError, postHasVoted>>
  /\ UNCHANGED fbVars
  /\ UNCHANGED <<appVars, envVars, appObs, pvVars, cpVars, idVars, hmVars>>

\* Post.handleVote, from its first check to its first suspension.  A refusal
\* resolves the awaited promise at once, so the continuation runs before any
\* other handler.
Post_handleVoteRun ==
  /\ IF user = Null \/ ~isKeychain
     THEN /\ ev' = "alert"
          /\ UNCHANGED voteVars
     ELSE \E throws \in BOOLEAN :
          /\ likePost(client, UserName(user), Author, "post-1", FullWeight, "Post", throws)
          /\ IF LikePostRefuses(client, UserName(user)) \/ throws
             THEN /\ Post_VoteContinues(suResult')
                  /\ ev' = IF throws THEN "voteThrew" ELSE "voteRefused"
             ELSE /\ postIsVoting' = TRUE
                  /\ postVoteError' = ""
                  /\ UNCHANGED postHasVoted
                  /\ ev' = "voteRequested"
  /\ UNCHANGED fbVars
  /\ UNCHANGED <<appVars, envVars, appObs, pvVars, cpVars, idVars, hmVars>>

\* The vote button of a Post card (disabled={isVoting || !user || hasVoted})
Post_handleVote ==
  /\ user # Null
  /\ ~postIsVoting
  /\ ~postHasVoted
  /\ Post_handleVoteRun

\* The agent answers a requestBroadcast: likePost resolves to success or to
\* response.message || 'Failed to vote with Keychain'
Social_BroadcastCallback ==
  /\ \E r \in BagToSet(suRequests), success \in BOOLEAN,
        message \in {Undefined, "Request was canceled by the user."} :
       LET result == IF success THEN Result(TRUE, "", FALSE)
                     ELSE Result(FALSE, IF message = Undefined
                                        THEN "Failed to vote with Keychain"
                                        ELSE message, FALSE) IN
       /\ success => message = Undefined
       /\ suRequests' = suRequests (-) SetToBag({r})
       /\ suResult' = result
       /\ IF r.caller = "Post"
          THEN Post_VoteContinues(result)
          ELSE UNCHANGED <<postIsVoting, postVoteError, postHasVoted>>
  /\ ev' = "likeResolved"
  /\ UNCHANGED suSleeps
  /\ UNCHANGED fbVars
  /\ UNCHANGED <<appVars, envVars, appObs, pvVars, cpVars, idVars, hmVars>>

\* The 500 ms wait ends: { success: true, simulated: true }
Social_SimulatedSuccess ==
  /\ \E r \in BagToSet(suSleeps) :
       /\ suSleeps' = suSleeps (-) SetToBag({r})
       /\ suResult' = Result(TRUE, "", TRUE)
       /\ IF r.caller = "Post"
          THEN Post_VoteContinues(suResult')
          ELSE UNCHANGED <<postIsVoting, postVoteError, postHasVoted>>
  /\ ev' = "likeResolved"
  /\ UNCHANGED suRequests
  /\ UNCHANGED fbVars
  /\ UNCHANGED <<appVars, envVars, appObs, pvVars, cpVars, idVars, hmVars>>

\* The feed under a connected App, with callers of likePost
\* followUser / unfollowUser calls unresolved at once
MaxFollows == 1

\* The profile the FollowButton is rendered for
Following == "bob"

\* what = ['blog'] to follow, [] to unfollow
FollowOp(follower, following, what, caller) ==
  [required_posting_auths |-> <<follower>>, follower |-> follower,
   following |-> following, what |-> what, caller |-> caller,
   via |-> IF keychainInstalled THEN "agent" ELSE "sleep"]

\* The first check of followUser and unfollowUser: !client || !follower
FollowRefuses(c, follower) == c = Null \/ follower \in {Null, Undefined, ""}

\* followUser (what = ['blog']) and unfollowUser (what = []) up to their first
\* await or their return
setFollow(c, follower, following, what, caller, throws) ==
  IF FollowRefuses(c, follower)
  THEN /\ ~throws
       /\ suResult' = Result(FALSE, "Client or follower not provided", FALSE)
       /\ UNCHANGED suFollows
  ELSE IF throws
  THEN /\ keychainInstalled
       /\ suResult' = ExecutorThrows(AgentThrows)
       /\ UNCHANGED suFollows
  ELSE /\ BagCardinality(suFollows) < MaxFollows
       /\ suFollows' = suFollows (+) SetToBag({FollowOp(follower, following, what, caller)})
       /\ UNCHANGED suResult

followUser(c, follower, following, caller, throws) ==
  setFollow(c, follower, following, <<"blog">>, caller, throws)

unfollowUser(c, follower, following, caller, throws) ==
  setFollow(c, follower, following, <<>>, caller, throws)

\* handleFollowToggle after its await, its catch included; isFollowing is the
\* value of the render the click happened in
FollowButton_ToggleContinues(result, wasFollowing) ==
  /\ fbProcessing' = FALSE
  /\ IF result.rejected
     THEN /\ fbError' = (IF wasFollowing THEN "Error unfollowing user: "
                                        ELSE "Error following user: ") \o result.error
          /\ UNCHANGED fbIsFollowing
     ELSE IF result.success
     THEN fbIsFollowing' = ~wasFollowing /\ UNCHANGED fbError
     ELSE fbError' = result.error /\ UNCHANGED fbIsFollowing

\* checkFollowStatus, started by the mount effect, resolves: isFollowing is
\* Math.random() > 0.5, or get_follow_count throws
FollowButton_StatusChecked ==
  /\ fbLoading
  /\ \E success \in BOOLEAN, isFollowing \in BOOLEAN :
       /\ ~success => ~isFollowing
       /\ fbIsFollowing' = IF success THEN isFollowing ELSE fbIsFollowing
  /\ fbLoading' = FALSE
  /\ ev' = "statusChecked"
  /\ UNCHANGED <<suFollows, fbProcessing, fbError>>
  /\ UNCHANGED voteVars
  /\ UNCHANGED <<appVars, envVars, appObs, pvVars, cpVars, idVars, hmVars>>

\* FollowButton.handleFollowToggle, from its first check to its first
\* suspension.  A refusal resolves the awaited promise at once.
FollowButton_handleFollowToggleRun ==
  /\ IF user = Null
     THEN /\ ev' = "alert"
          /\ UNCHANGED <<suFollows, suResult, fbIsFollowing, fbProcessing, fbError>>
     ELSE /\ \E throws \in BOOLEAN :
               /\ IF fbIsFollowing
                  THEN unfollowUser(client, UserName(user), Following, "FollowButton", throws)
                  ELSE followUser(client, UserName(user), Following, "FollowButton", throws)
               /\ IF FollowRefuses(client, UserName(user)) \/ throws
                  THEN FollowButton_ToggleContinues(suResult', fbIsFollowing)
                  ELSE /\ fbProcessing' = TRUE
                       /\ fbError' = ""
                       /\ UNCHANGED fbIsFollowing
          /\ ev' = "followToggled"
  /\ UNCHANGED fbLoading
  /\ UNCHANGED <<suRequests, suSleeps, postIsVoting, postVoteError, postHasVoted>>
  /\ UNCHANGED <<appVars, envVars, appObs, pvVars, cpVars, idVars, hmVars>>

\* The Follow / Unfollow button (rendered if user, disabled={loading ||
\* processing})
FollowButton_handleFollowToggle ==
  /\ user # Null
  /\ ~fbLoading
  /\ ~fbProcessing
  /\ FollowButton_handleFollowToggleRun

\* A caller of the exported followUser / unfollowUser other than FollowButton
Social_followUser ==
  /\ \E c \in {Null, "client"}, follower \in {Undefined, "alice"}, throws \in BOOLEAN :
       \/ followUser(c, follower, Following, "util", throws)
       \/ unfollowUser(c, follower, Following, "util", throws)
  /\ ev' = "followUser"
  /\ UNCHANGED <<fbIsFollowing, fbLoading, fbProcessing, fbError>>
  /\ UNCHANGED <<suRequests, suSleeps, postIsVoting, postVoteError, postHasVoted>>
  /\ UNCHANGED <<appVars, envVars, appObs, pvVars, cpVars, idVars, hmVars>>

\* The agent answers the requestBroadcast of a follow operation, or the 600 ms
\* simulated wait ends
Social_FollowResolves ==
  /\ \E r \in BagToSet(suFollows), success \in BOOLEAN :
       LET result == IF r.via = "sleep" THEN Result(TRUE, "", TRUE)
                     ELSE IF success THEN Result(TRUE, "", FALSE)
                     ELSE Result(FALSE, "Failed to follow with Keychain", FALSE) IN
       /\ r.via = "sleep" => success
       /\ suFollows' = suFollows (-) SetToBag({r})
       /\ suResult' = result
       /\ IF r.caller = "FollowButton"
          THEN FollowButton_ToggleContinues(result, r.what = <<>>)
          ELSE UNCHANGED <<fbIsFollowing, fbProcessing, fbError>>
  /\ ev' = "followResolved"
  /\ UNCHANGED fbLoading
  /\ UNCHANGED <<suRequests, suSleeps, postIsVoting, postVoteError, postHasVoted>>
  /\ UNCHANGED <<appVars, envVars, appObs, pvVars, cpVars, idVars, hmVars>>

\* The feed and a profile's FollowButton under a connected App, with callers
\* of the exported functions.  FollowButton's mount effect has started
\* checkFollowStatus if user is set, and has set loading false otherwise.
InitSocial ==
  /\ AppConnected
  /\ agentSilent = FALSE
  /\ PostViewIdle
  /\ CreatePostIdle
  /\ VoteIdle
  /\ PermlinkIdle
  /\ HomeIdle
  /\ suFollows = EmptyBag
  /\ fbIsFollowing = FALSE
  /\ fbLoading = (user # Null)
  /\ fbProcessing = FALSE
  /\ fbError = ""
  /\ ev = "mount"

NextSocial ==
  \/ Social_likePost
  \/ Post_handleVote
  \/ Social_BroadcastCallback
  \/ Social_SimulatedSuccess
  \/ FollowButton_StatusChecked
  \/ FollowButton_handleFollowToggle
  \/ Social_followUser
  \/ Social_FollowResolves

SpecSocial == InitSocial /\ [][NextSocial]_vars

\* C10: a vote whose weight lies outside [-10000, 10000] is answered with a
\* validation error instead of being sent: it is never handed to the signing
\* agent and never enters the simulated broadcast.
C10_OutOfRangeVoteRejected ==
  \A r \in BagToSet(suRequests) \cup BagToSet(suSleeps) :
    r.weight >= -FullWeight /\ r.weight <= FullWeight

\* C19: a click on the follow toggle hands a follow operation to the signing
\* path, with the signed-in actor as follower and sole posting authority, and
\* what = [blog] when the button showed Follow, what = [] when it showed
\* Unfollow.
C19_ToggleSubmitsMatchingOperation ==
  [][ev' = "followToggled" =>
       \E r \in BagToSet(suFollows') :
         /\ CopiesIn(r, suFollows') > CopiesIn(r, suFollows)
         /\ r.follower = user
         /\ r.required_posting_auths = <<user>>
         /\ r.what = (IF fbIsFollowing THEN <<>> ELSE <<"blog">>)]_vars

\* C20: a vote on a Post card by a signed-in actor of a Keychain session is
\* handed to the agent, not refused; and when the agent reports success for
\* it, the card shows the vote as applied with no error.
C20_AcceptedVoteShown ==
  [][/\ ~(ev' = "voteRefused" /\ user # Null /\ isKeychain /\ client # Null)
     /\ (\E r \in BagToSet(suRequests) :
           /\ r.caller = "Post"
           /\ suRequests' = suRequests (-) SetToBag({r})
           /\ suResult'.success)
        => (postHasVoted' /\ ~postIsVoting' /\ postVoteError' = "")]_vars

\* C21: likePost and followUser / unfollowUser always settle with a result
\* object { success, ... } and never reject: no promise they return is
\* rejected, a synchronous throw of the agent's request call included.
C21_SigningPathNeverRejects == ~suResult.rejected

----------------------------------------------------------------------------
(* Permlinks: the identifier step of each publish and reply entry point    *)

\* Permlinks generated in one run
MaxMints == 2

\* Clock readings
MaxClock == 2

\* Clock readings per calendar day, the unit toISOString's first 8
\* alphanumerics (yyyymmdd) resolve
TicksPerDay == 2

Titles == {"Hello World", "Hello, World!", "Hi"}
Parents == {"post-1", "Post-1"}

\* Math.random().toString(36).substring(2, 8)
Randoms == {"k3x9ab", "q7m2zc"}

\* title.toLowerCase().replace(/[^\w\s]/g, '').replace(/\s+/g, '-').substring(0, 50)
BasePermlink(title) == IF title = "Hi" THEN "hi" ELSE "hello-world"

\* now.toISOString().replace(/[^a-zA-Z0-9]/g, '').toLowerCase().substring(0, 8)
TimeString8(t) == t \div TicksPerDay

\* permlink.replace(/[^a-z0-9-]/g, '')
StripPermlink(parent) == IF parent = "Post-1" THEN "ost-1" ELSE parent

\* A permlink by its dash-separated parts; "" stands for a part the template
\* does not have
Permlink(prefix, base, time, random) ==
  [prefix |-> prefix, base |-> base, time |-> time, random |-> random]

\* handleSubmit.generatePermlink: `${basePermlink}-${timeString.substring(0, 8)}-${randomString}`
generatePermlink(title, t, random) == Permlink("", BasePermlink(title), TimeString8(t), random)

\* handleDirectPost: `post-${Date.now()}`
simplePermlink(t) == Permlink("post", "", t, "")

\* handleSimplePost: `test-post-${Date.now()}`
testPermlink(t) == Permlink("test-post", "", t, "")

\* commentOnPost and PostView.handleComment: `re-${parentPermlink.replace(...)}-${Date.now()}`
commentPermlink(parent, t) == Permlink("re", StripPermlink(parent), t, "")

Minted(entry, input, permlink) ==
  [entry |-> entry, input |-> input, permlink |-> permlink, failed |-> FALSE]

Mint(m) ==
  /\ Len(minted) < MaxMints
  /\ minted' = Append(minted, m)
  /\ UNCHANGED now
  /\ UNCHANGED <<appVars, envVars, appObs, pvVars, cpVars, suVars, hmVars>>

\* Time passes
Permlink_Tick ==
  /\ now < MaxClock
  /\ now' = now + 1
  /\ ev' = "tick"
  /\ UNCHANGED minted
  /\ UNCHANGED <<appVars, envVars, appObs, pvVars, cpVars, suVars, hmVars>>

\* handleSubmit reaches const permlink = generatePermlink()
Permlink_handleSubmit ==
  /\ \E title \in Titles, random \in Randoms :
       Mint(Minted("handleSubmit", title, generatePermlink(title, now, random)))
  /\ ev' = "minted"

Permlink_handleDirectPost ==
  /\ \E title \in Titles : Mint(Minted("handleDirectPost", title, simplePermlink(now)))
  /\ ev' = "minted"

\* handleSimplePost publishes a fixed test title
Permlink_handleSimplePost ==
  /\ Mint(Minted("handleSimplePost", "Test Post", testPermlink(now)))
  /\ ev' = "minted"

Permlink_commentOnPost ==
  /\ \E parent \in Parents : Mint(Minted("commentOnPost", parent, commentPermlink(parent, now)))
  /\ ev' = "minted"

Permlink_handleComment ==
  /\ \E parent \in Parents : Mint(Minted("handleComment", parent, commentPermlink(parent, now)))
  /\ ev' = "minted"

\* The publish or reply the newest permlink was generated for is rejected or
\* times out
Permlink_AttemptFails ==
  /\ minted # <<>>
  /\ ~minted[Len(minted)].failed
  /\ minted' = [minted EXCEPT ![Len(minted)].failed = TRUE]
  /\ ev' = "attemptFailed"
  /\ UNCHANGED now
  /\ UNCHANGED <<appVars, envVars, appObs, pvVars, cpVars, suVars, hmVars>>

InitPermlink ==
  /\ AppConnected
  /\ agentSilent = FALSE
  /\ PostViewIdle
  /\ CreatePostIdle
  /\ SocialIdle
  /\ HomeIdle
  /\ ev = "mount"

NextPermlink ==
  \/ Permlink_Tick
  \/ Permlink_handleSubmit
  \/ Permlink_handleDirectPost
  \/ Permlink_handleSimplePost
  \/ Permlink_commentOnPost
  \/ Permlink_handleComment
  \/ Permlink_AttemptFails

SpecPermlink == InitPermlink /\ [][NextPermlink]_vars

\* C12: the publish that follows a failed or timed-out one from the same entry
\* point with the same form input carries the permlink of the failed one.
C12_RetryReusesPermlink ==
  \A i \in 1..(Len(minted) - 1) :
    ( /\ minted[i].failed
      /\ minted[i].entry \in {"handleSubmit", "handleDirectPost"}
      /\ minted[i + 1].entry = minted[i].entry
      /\ minted[i + 1].input = minted[i].input )
    => minted[i + 1].permlink = minted[i].permlink

\* C17: every permlink generated for a publish, by handleSubmit,
\* handleDirectPost or handleSimplePost, has a time part and a random part.
C17_PublishPermlinkHasTimeAndRandom ==
  \A i \in 1..Len(minted) :
    minted[i].entry \in {"handleSubmit", "handleDirectPost", "handleSimplePost"}
    => (minted[i].permlink.time >= 0 /\ minted[i].permlink.random # "")

\* C18: two replies to the same parent never get the same permlink, also when
\* both are generated at one clock reading.
C18_ReplyPermlinksDistinct ==
  \A i, j \in 1..Len(minted) :
    ( /\ i < j
      /\ minted[i].entry \in {"commentOnPost", "handleComment"}
      /\ minted[j].entry \in {"commentOnPost", "handleComment"}
      /\ minted[i].input = minted[j].input )
    => minted[i].permlink # minted[j].permlink

----------------------------------------------------------------------------
(* Home: the feed's category fallback                                      *)

\* getDiscussions calls unresolved at once
MaxHomeFetches == 3

CATEGORIES == {"trending", "hot", "created", "blog", "promoted"}

SAMPLE_POSTS == <<"welcome-to-hive", "getting-started">>

\* What getDiscussions resolves to: no posts, or a page of posts
Discussions == {<<>>, <<"post-1">>}

\* The category an empty result moves a fetch of category c to, or c itself
\* where the fallback ends
NextCategory(c) ==
  IF c = "trending" THEN "hot" ELSE IF c = "hot" THEN "created" ELSE c

\* fetchPosts(true) with a client, up to its await: setLoading(true),
\* setPosts([]), and the getDiscussions call for the category of the render
\* the call was made in; chain is the count the new fetch brings the chain to
fetchPosts(category, inFlight, chain) ==
  /\ hmLoading' = TRUE
  /\ hmPosts' = <<>>
  /\ hmFetches' = inFlight (+) SetToBag({category})
  /\ hmChain' = chain

\* A category button that is not the current one (disabled while
\* usingSampleData): setCategory, and the effect calls fetchPosts(true)
Home_handleCategoryChange ==
  /\ ~hmUsingSampleData
  /\ BagCardinality(hmFetches) < MaxHomeFetches
  /\ \E newCategory \in CATEGORIES \ {hmCategory} :
       /\ hmCategory' = newCategory
       /\ fetchPosts(newCategory, hmFetches, 1)
  /\ ev' = "categoryChanged"
  /\ UNCHANGED <<hmError, hmUsingSampleData>>
  /\ UNCHANGED <<appVars, envVars, appObs, pvVars, cpVars, suVars, idVars>>

\* The Retry button of the error box (error is never cleared)
Home_Retry ==
  /\ hmError # ""
  /\ BagCardinality(hmFetches) < MaxHomeFetches
  /\ fetchPosts(hmCategory, hmFetches, 1)
  /\ ev' = "retry"
  /\ UNCHANGED <<hmCategory, hmError, hmUsingSampleData>>
  /\ UNCHANGED <<appVars, envVars, appObs, pvVars, cpVars, suVars, idVars>>

\* getDiscussions resolves.  A non-empty result is shown; an empty one sets
\* the next category, by the category the fetch closed over, and past
\* 'created' shows the sample posts; finally setLoading(false).  A category
\* that changed re-runs the effect, which calls fetchPosts(true).
Home_FetchResolves ==
  /\ \E c \in BagToSet(hmFetches), result \in Discussions :
       LET rest == hmFetches (-) SetToBag({c}) IN
       IF result # <<>>
       THEN /\ hmPosts' = result
            /\ hmUsingSampleData' = FALSE
            /\ hmLoading' = FALSE
            /\ hmFetches' = rest
            /\ ev' = "fetched"
            /\ UNCHANGED <<hmCategory, hmError, hmChain>>
       ELSE IF NextCategory(c) # c
       THEN /\ hmCategory' = NextCategory(c)
            /\ IF hmCategory' # hmCategory
               THEN fetchPosts(hmCategory', rest, hmChain + 1)
               ELSE /\ hmLoading' = FALSE
                    /\ hmFetches' = rest
                    /\ UNCHANGED <<hmPosts, hmChain>>
            /\ ev' = "fellBack"
            /\ UNCHANGED <<hmError, hmUsingSampleData>>
       ELSE /\ hmPosts' = SAMPLE_POSTS
            /\ hmUsingSampleData' = TRUE
            /\ hmError' = "Could not fetch posts from Hive. Showing sample content."
            /\ hmLoading' = FALSE
            /\ hmFetches' = rest
            /\ ev' = "sampled"
            /\ UNCHANGED <<hmCategory, hmChain>>
  /\ UNCHANGED <<appVars, envVars, appObs, pvVars, cpVars, suVars, idVars>>

\* getDiscussions rejects: the catch shows the sample posts
Home_FetchThrows ==
  /\ \E c \in BagToSet(hmFetches) :
       hmFetches' = hmFetches (-) SetToBag({c})
  /\ hmError' = "Failed to fetch posts"
  /\ hmPosts' = SAMPLE_POSTS
  /\ hmUsingSampleData' = TRUE
  /\ hmLoading' = FALSE
  /\ ev' = "fetchThrew"
  /\ UNCHANGED <<hmCategory, hmChain>>
  /\ UNCHANGED <<appVars, envVars, appObs, pvVars, cpVars, suVars, idVars>>

\* Home after its mount effect under a connected App: fetchPosts(true) has
\* started the fetch of 'trending'
InitHome ==
  /\ AppConnected
  /\ agentSilent = FALSE
  /\ PostViewIdle
  /\ CreatePostIdle
  /\ VoteIdle
  /\ FollowIdle
  /\ now = 0
  /\ minted = <<>>
  /\ hmCategory = "trending"
  /\ hmPosts = <<>>
  /\ hmLoading = TRUE
  /\ hmError = ""
  /\ hmUsingSampleData = FALSE
  /\ hmFetches = SetToBag({"trending"})
  /\ hmChain = 1
  /\ ev = "mount"

NextHome ==
  \/ Home_handleCategoryChange
  \/ Home_Retry
  \/ Home_FetchResolves
  \/ Home_FetchThrows

SpecHome == InitHome /\ [][NextHome]_vars

\* C30: the fallback chain started by a mount or a click issues at most 3
\* fetches, that first fetch included, before the next click; when no fetch
\* is left in flight loading is false and the post list is not empty; and a
\* fetch that throws leaves the sample posts shown.
C30_FallbackTerminates ==
  /\ hmChain <= 3
  /\ hmFetches = EmptyBag => (~hmLoading /\ hmPosts # <<>>)
  /\ ev = "fetchThrew" => (hmPosts = SAMPLE_POSTS /\ hmUsingSampleData)

----------------------------------------------------------------------------
(* The signed-out visitor: every vote, comment, follow and publish handler  *)

\* The views after a logout or a visit without a stored identity.  Login is
\* not part of this specification, so user stays null.  The handlers are run
\* whether or not their control is rendered or enabled for a null user (the
\* Post card's vote button is disabled, FollowButton and PostView's comment
\* form are not rendered), which only adds behaviours.  A comment typed
\* before the logout is still in PostView's state.
InitSignedOut ==
  /\ AppConnected
  /\ user = Null
  /\ agentSilent = FALSE
  /\ pvPermlink = "post-1"
  /\ pvPost = NoPost
  /\ pvComments = 0
  /\ pvLoading = TRUE
  /\ pvError = ""
  /\ pvCommentBody \in {"", "hi"}
  /\ pvSubmittingComment = FALSE
  /\ pvCommentError = ""
  /\ pvVoted = FALSE
  /\ pvVoteWeight = FullWeight
  /\ pvFetches = {"post-1"}
  /\ pvAgent = EmptyBag
  /\ cpMounted = TRUE
  /\ cpTitle = ""
  /\ cpBody = ""
  /\ cpTags = ""
  /\ cpIsSubmitting = FALSE
  /\ cpError = ""
  /\ cpSuccessMessage = ""
  /\ cpPostingMethod = IF isKeychain THEN "keychain" ELSE "direct"
  /\ cpTimeoutId = 0
  /\ cpTimers = {}
  /\ cpClearTimers = FALSE
  /\ cpRequests = EmptyBag
  /\ cpFired = {}
  /\ VoteIdle
  /\ suFollows = EmptyBag
  /\ fbIsFollowing = FALSE
  /\ fbLoading = FALSE
  /\ fbProcessing = FALSE
  /\ fbError = ""
  /\ PermlinkIdle
  /\ HomeIdle
  /\ ev = "mount"

NextSignedOut ==
  \/ PostView_FetchFound
  \/ PostView_FetchFails
  \/ PostView_handleVote
  \/ PostView_handleCommentRun
  \/ Post_handleVoteRun
  \/ FollowButton_handleFollowToggleRun
  \/ CreatePost_setField
  \/ CreatePost_setPostingMethod
  \/ CreatePost_handleSubmit
  \/ CreatePost_handleSimplePost
  \/ CreatePost_handleDirectPost

SpecSignedOut == InitSignedOut /\ [][NextSignedOut]_vars

\* C27: while user is null no vote, comment, follow / unfollow or publish
\* intent reaches the signing agent or broadcast.sendOperations (nothing is
\* handed to requestVote, requestComment, requestPost, requestBroadcast or
\* sendOperations, and no simulated broadcast starts); the intent ends in its
\* handler with a login prompt or an error.
C27_SignedOutNeverSigns ==
  user = Null =>
    /\ pvAgent = EmptyBag
    /\ cpRequests = EmptyBag
    /\ suRequests = EmptyBag
    /\ suSleeps = EmptyBag
    /\ suFollows = EmptyBag
    /\ ~suResult.settled
    /\ ev \in {"mount", "fetchFound", "fetchFailed", "input", "alert",
               "voteRefused", "commentRefused", "refused"}
    /\ ev = "voteRefused" => pvError = "Please login with Hive Keychain to vote"
    /\ ev = "commentRefused" => pvCommentError # ""
    /\ ev = "refused" => cpError = "You must be logged in to create a post"

C27_Witness ==
  /\ user = Null
  /\ ev = "refused"
  /\ cpTitle # "" /\ cpBody # "" /\ cpTags # ""
  /\ cpError = "You must be logged in to create a post"
  /\ pvError = "Please login with Hive Keychain to vote"

====
